---- MODULE Spec2Model ----
(***************************************************************************)
(* A model of package dag (src/dag.go) and of the receive session of       *)
(* package dsync (src/dsync/session.go).                                   *)
(*                                                                         *)
(* Content identifiers are modelled by naturals: the natural n stands for  *)
(* the n-th identifier string in lexicographic order, so that comparing    *)
(* two identifier strings is comparing their naturals.                     *)
(***************************************************************************)
EXTENDS Integers, Sequences, FiniteSets, TLC

\* ------------------------------------------------------------------ bounds

\* nodes of an enumerated DAG
MaxNodes == 3
\* links of an enumerated DAG, all nodes together
MaxEdges == 3
\* leaves of the widest single-level DAG (a root linking to MaxFan leaves)
MaxFan == 6
\* index pairs of an enumerated sortableLinks slice
MaxSlice == 2
\* distinct content identifiers of the manifests handed to NewCompletion and
\* to newSession
NumHashes == 3
\* nodes of a manifest handed to NewCompletion or to newSession
MaxLen == 3
\* nodes of the manifest of a session
MaxSessionLen == 2
\* concurrent callers of session.ReceiveBlock
MaxTasks == 2
\* ReceiveBlock calls made on one session
MaxCalls == 2
\* length of the Completions whose Percentage, CompletedBlocks, Complete are taken
MaxEntries == 4

\* ------------------------------------------------------------ program state

VARIABLES
    dag,      \* the block store read through ipld.NodeGetter: id -> ordered links
    root,     \* the identifier handed to NewManifest
    fault,    \* the one failure the store's capabilities produce, or NoFault
    gosort,   \* the sort.Sort implementation of the toolchain that built the binary
    ms,       \* the mstate of the latest NewManifest call, as it was left
    built,    \* per NewManifest call: its return values (m, err), or NotBuilt
    slice,    \* a sortableLinks slice, and whether sort.Sort has run on it
    cmpl,     \* the arguments of a NewCompletion call and what it returned
    sess,     \* the session: mfst, diff, prog, and the blocks written through bapi
    task,     \* per caller of ReceiveBlock: where it stands and what it holds
    pubs,     \* completionChanged goroutines blocked on the send to progCh
    calls,    \* ReceiveBlock calls made so far
    heard,    \* the first value a listener received from progCh, as it then read
    summ      \* a Completion and what its Percentage, CompletedBlocks, Complete return

manifestVars == <<dag, root, fault, ms, built>>
sessionVars == <<sess, task, pubs, calls, heard>>
vars == <<dag, root, fault, gosort, ms, built, slice, cmpl, sess, task, pubs, calls, heard, summ>>

\* ------------------------------------------------------------------ helpers

NoErr == [kind |-> "nil", id |-> 0]
NoFault == [kind |-> "none", id |-> 0]
NotBuilt == [called |-> FALSE, m |-> [Nodes |-> <<>>, Links |-> <<>>], err |-> NoErr]
Builds == {1, 2}

Range(s) == {s[i] : i \in 1..Len(s)}

\* m[k] = v on a Go map held as a function
MapPut(f, k, v) == [x \in (DOMAIN f) \cup {k} |-> IF x = k THEN v ELSE f[x]]

\* m[k] on a Go map: the zero value when k is absent
MapGet(f, k) == IF k \in DOMAIN f THEN f[k] ELSE 0

EmptyMap == [x \in {} |-> 0]

Swap(s, i, j) == [s EXCEPT ![i] = s[j], ![j] = s[i]]

SeqsUpTo(S, n) == UNION {[1..k -> S] : k \in 0..n}

Perms(S) == {p \in [1..Cardinality(S) -> S] : \A i, j \in 1..Cardinality(S) : i # j => p[i] # p[j]}

\* --------------------------------------------------------------- sort.Sort
\* sort.Sort(data) on a slice of at most 12 elements.  Less(i, j) is
\* key[s[i]] < key[s[j]].  Up to Go 1.18 sort.Sort is quickSort, which on a
\* range of at most 12 elements does one ShellSort pass with gap 6 and then
\* insertionSort; from Go 1.19 it is pdqsort, which on at most 12 elements does
\* insertionSort alone.

RECURSIVE Sift(_, _, _)
Sift(s, j, key) ==
    IF j > 1 /\ key[s[j]] < key[s[j - 1]]
    THEN Sift(Swap(s, j, j - 1), j - 1, key)
    ELSE s

RECURSIVE insertionSort(_, _, _)
insertionSort(s, i, key) ==
    IF i > Len(s) THEN s ELSE insertionSort(Sift(s, i, key), i + 1, key)

RECURSIVE shellPass(_, _, _)
shellPass(s, i, key) ==
    IF i > Len(s) THEN s
    ELSE shellPass(IF key[s[i]] < key[s[i - 6]] THEN Swap(s, i, i - 6) ELSE s, i + 1, key)

GoSort(s, key) ==
    IF Len(s) <= 1 THEN s
    ELSE IF gosort = "quickSort"
         THEN insertionSort(shellPass(s, 7, key), 2, key)
         ELSE insertionSort(s, 2, key)

\* sort.Sort on the first n elements of s (data.Len() = n)
GoSortN(s, n, key) ==
    IF n >= Len(s) THEN GoSort(s, key)
    ELSE GoSort(SubSeq(s, 1, n), key) \o SubSeq(s, n + 1, Len(s))

\* ------------------------------------------------------------ the node store

ErrNotFound(id) == [kind |-> "get", id |-> id]
ErrSize(id) == [kind |-> "size", id |-> id]

\* ipld.NodeGetter.Get / ipld.Link.GetNode: the node, or the store's error
Get(id) ==
    IF fault = ErrNotFound(id) \/ id \notin DOMAIN dag
    THEN [err |-> ErrNotFound(id)]
    ELSE [err |-> NoErr, node |-> id]

\* Node.Size(): the serialized size of the node, or an error
Size(id) ==
    IF fault = ErrSize(id) THEN [err |-> ErrSize(id), size |-> 0]
    ELSE [err |-> NoErr, size |-> 1 + Len(dag[id])]

\* ------------------------------------------------------------- NewManifest

\* an mstate with nothing recorded
FreshMState ==
    [weights |-> EmptyMap, links |-> <<>>, sizes |-> EmptyMap,
     m |-> [Nodes |-> <<>>, Links |-> <<>>]]

\* the mstate of an earlier call, kept
StaleMState == ms

\* the mstate NewManifest allocates for the call
NewMState == FreshMState

\* no check of the nodes already added
NeverAdded(st, id) == FALSE

\* _, ok := ms.sizes[id]

AlreadyAdded(st, id) == id \in DOMAIN st.sizes

\* a link recorded only when its target is new
AppendUnseenLink(st, from, to) ==
    IF to \in DOMAIN st.sizes THEN st.links ELSE Append(st.links, <<from, to>>)

\* ms.links = append(ms.links, [2]string{id, linkNode.Cid().String()})
AppendLink(st, from, to) == Append(st.links, <<from, to>>)

\* addNode(node, &weight): the mstate, *weight and the error it leaves
RECURSIVE addNode(_, _, _)
RECURSIVE addLinks(_, _, _, _)
addNode(st, id, weight) ==
    IF AlreadyAdded(st, id) THEN [st |-> st, weight |-> weight, err |-> NoErr]
    ELSE LET sz == Size(id)
             s1 == [st EXCEPT !.m.Nodes = Append(@, id),
                              !.sizes = MapPut(@, id, sz.size)]
         IN  IF sz.err # NoErr THEN [st |-> s1, weight |-> weight, err |-> sz.err]
             ELSE LET r == addLinks(s1, id, 1, weight)
                  IN  IF r.err # NoErr THEN r
                      ELSE [st |-> [r.st EXCEPT !.weights = MapPut(@, id, r.weight)],
                            weight |-> r.weight, err |-> NoErr]

\* the loop over node.Links() of addNode, from the k-th link on
addLinks(st, id, k, weight) ==
    IF k > Len(dag[id]) THEN [st |-> st, weight |-> weight, err |-> NoErr]
    ELSE LET w1 == weight + 1
             got == Get(dag[id][k])
         IN  IF got.err # NoErr THEN [st |-> st, weight |-> w1, err |-> got.err]
             ELSE LET s1 == [st EXCEPT !.links = AppendLink(st, id, got.node)]
                      sub == addNode(s1, got.node, 0)
                  IN  IF sub.err # NoErr
                      THEN [st |-> sub.st, weight |-> w1, err |-> sub.err]
                      ELSE addLinks(sub.st, id, k + 1, w1 + sub.weight)

\* sort.StringSlice(ms.m.Nodes).Sort()
AlphaSort(nodes) == GoSort(nodes, [id \in Range(nodes) |-> id])

\* a lighter node sorts first
AscendingWeightKey(st) == [id \in Range(st.m.Nodes) |-> MapGet(st.weights, id)]

\* mstate.Less as a sort key: a heavier node sorts first
WeightKey(st) == [id \in Range(st.m.Nodes) |-> 0 - MapGet(st.weights, id)]

\* sort.Sort(ms), with mstate.Len() = len(ms.sizes)
WeightSort(st) == GoSortN(st.m.Nodes, Cardinality(DOMAIN st.sizes), WeightKey(st))

\* the key multiplier of sortableLinks.Less
LinkKeyBase == 1000

\* sortableLinks.Less as a sort key
LinkKey(l) == LinkKeyBase * (l[1] + 1) + l[2]

\* sort.Sort(sl)
SortLinks(sl) == GoSort(sl, [l \in Range(sl) |-> LinkKey(l)])

\* the index of every node of the sorted list, kept in ms.weights (0-based)
RECURSIVE IndexWeights(_, _, _)
IndexWeights(w, nodes, i) ==
    IF i > Len(nodes) THEN w
    ELSE IndexWeights(MapPut(w, nodes[i], i - 1), nodes, i + 1)

makeManifest(st0, id) ==
    LET got == Get(id)
    IN  IF got.err # NoErr THEN [st |-> st0, err |-> got.err]
        ELSE LET r == addNode(st0, got.node, 0)
             IN  IF r.err # NoErr THEN [st |-> r.st, err |-> r.err]
                 ELSE LET s1 == [r.st EXCEPT !.m.Nodes = AlphaSort(@)]
                          s2 == [s1 EXCEPT !.m.Nodes = WeightSort(s1)]
                          s3 == [s2 EXCEPT !.weights = IndexWeights(@, s2.m.Nodes, 1)]
                          sl == [k \in 1..Len(s3.links) |->
                                    <<MapGet(s3.weights, s3.links[k][1]),
                                      MapGet(s3.weights, s3.links[k][2])>>]
                      IN  [st |-> [s3 EXCEPT !.m.Links = SortLinks(sl)], err |-> NoErr]

\* NewManifest(ctx, ng, id): returns (ms.m, err)
NewManifest(b) ==
    /\ built[b] = NotBuilt
    /\ LET r == makeManifest(NewMState, root)
       IN  /\ built' = [built EXCEPT ![b] = [called |-> TRUE, m |-> r.st.m, err |-> r.err]]
           /\ ms' = r.st
    /\ UNCHANGED <<dag, root, fault, gosort, slice, cmpl, sessionVars, summ>>

\* ------------------------------------------------------------------- inputs

\* the DAGs on the nodes 1..n in which node i links only to later nodes and
\* that hold at most MaxEdges links: the link lists of the nodes i..n, with e
\* links left to give out
RECURSIVE ShapesFrom(_, _, _)
ShapesFrom(i, n, e) ==
    IF i > n THEN {<<>>}
    ELSE UNION {{<<l>> \o rest : rest \in ShapesFrom(i + 1, n, e - Len(l))} :
                    l \in SeqsUpTo((i + 1)..n, e)}

Shapes(n) == ShapesFrom(1, n, MaxEdges)

\* shape sh with node i given the identifier p[i]
Named(sh, p) ==
    [id \in Range(p) |->
        LET i == CHOOSE j \in DOMAIN p : p[j] = id
        IN  [k \in 1..Len(sh[i]) |-> p[sh[i][k]]]]

\* a root linking once to each of k leaves, in ascending order of identifier;
\* the root's identifier is the r-th of the k + 1
RECURSIVE Ascending(_, _)
Ascending(S, acc) ==
    IF S = {} THEN acc
    ELSE LET x == CHOOSE y \in S : \A z \in S : y <= z
         IN  Ascending(S \ {x}, Append(acc, x))

Star(k, r) ==
    [id \in 1..(k + 1) |-> IF id = r THEN Ascending((1..(k + 1)) \ {r}, <<>>) ELSE <<>>]

\* a root with two children and one grandchild linked from both children
Diamond(p) == Named(<<<<2, 3>>, <<4>>, <<4>>, <<>>>>, p)

Faults(d) ==
    {NoFault} \cup {ErrNotFound(id) : id \in DOMAIN d} \cup {ErrSize(id) : id \in DOMAIN d}

\* the variables of the parts a specification does not exercise
NoManifest ==
    /\ dag = EmptyMap /\ root = 0 /\ fault = NoFault
    /\ ms = FreshMState /\ built = [b \in Builds |-> NotBuilt]
NoSlice == slice = [sorted |-> FALSE, links |-> <<>>]
NoCompletion == cmpl = [called |-> FALSE, mfst |-> <<>>, missing |-> <<>>, prog |-> <<>>]
NoSession ==
    /\ sess = [mfst |-> <<>>, diff |-> <<>>, prog |-> <<>>, stored |-> {}, refused |-> {}]
    /\ task = [t \in {} |-> 0]
    /\ pubs = 0
    /\ calls = 0
    /\ heard = [got |-> FALSE, ptr |-> "nil", len |-> 0, seen |-> <<>>]

NoPct == [kind |-> "number", num |-> 0, den |-> 1]
NoSummary == summ = [called |-> FALSE, p |-> <<>>, pct |-> NoPct, count |-> 0, complete |-> FALSE]

Init ==
    /\ \/ \E sh \in Shapes(MaxNodes), p \in Perms(1..MaxNodes) :
            dag = Named(sh, p) /\ root = p[1]
       \/ \E p \in Perms(1..4) : dag = Diamond(p) /\ root = p[1]
       \/ \E k \in 4..MaxFan, r \in 1..(MaxFan + 1) :
            r <= k + 1 /\ dag = Star(k, r) /\ root = r
    /\ fault \in Faults(dag)
    /\ gosort \in {"quickSort", "pdqsort"}
    /\ ms = FreshMState
    /\ built = [b \in Builds |-> NotBuilt]
    /\ NoSlice /\ NoCompletion /\ NoSession /\ NoSummary

Next == \E b \in Builds : NewManifest(b)

Spec == Init /\ [][Next]_vars

\* ------------------------------------------------- sort.Sort(sortableLinks)
\* The sort of makeManifest's index pairs on its own, on slices whose indices
\* reach past LinkKeyBase as they do in a manifest of more than LinkKeyBase
\* nodes.  A pair never points to itself nor to index 0, the root.

LinkIndexes == {0, 1, 2, LinkKeyBase + 3}

IndexPairs == {l \in LinkIndexes \X LinkIndexes : l[1] # l[2] /\ l[2] # 0}

SortSlice ==
    /\ ~slice.sorted
    /\ slice' = [sorted |-> TRUE, links |-> SortLinks(slice.links)]
    /\ UNCHANGED <<manifestVars, gosort, cmpl, sessionVars, summ>>

InitLinks ==
    /\ slice \in {[sorted |-> FALSE, links |-> s] : s \in SeqsUpTo(IndexPairs, MaxSlice)}
    /\ gosort \in {"quickSort", "pdqsort"}
    /\ NoManifest /\ NoCompletion /\ NoSession /\ NoSummary

NextLinks == SortSlice

SpecLinks == InitLinks /\ [][NextLinks]_vars

\* ------------------------------------------------------------ NewCompletion

Hashes == 1..NumHashes

\* prog[i] = 100
MarkLocal(prog, i) == [prog EXCEPT ![i] = 100]

\* a matched node marked as local
MarkMatchedLocal(prog, i) == [prog EXCEPT ![i] = 100]

\* prog[i] = 0
MarkMissing(prog, i) == [prog EXCEPT ![i] = 0]

\* a cursor that stays on the first missing node
StuckCursor(m) == m

\* m++
AdvanceCursor(m) == m + 1

\* the loop of NewCompletion from the i-th node of mfst on, m being the
\* (0-based) cursor into missing.Nodes
RECURSIVE scanNodes(_, _, _, _, _)
scanNodes(mfst, missing, i, m, prog) ==
    IF i > Len(mfst) THEN prog
    ELSE IF m < Len(missing) /\ mfst[i] = missing[m + 1]
         THEN scanNodes(mfst, missing, i + 1, AdvanceCursor(m), MarkMissing(prog, i))
         ELSE scanNodes(mfst, missing, i + 1, m, MarkLocal(prog, i))

\* NewCompletion(mfst, missing), on the Nodes of the two manifests
NewCompletion(mfst, missing) ==
    scanNodes(mfst, missing, 1, 0, [i \in 1..Len(mfst) |-> 0])

\* a block counts once any of it is local
IsStarted(bl) == bl > 0

\* bl == 100: the block is local
IsCompleted(bl) == bl = 100

\* Completion.Complete(): the loop from entry i on, false at the first entry
\* that is not 100
RECURSIVE completeFrom(_, _)
completeFrom(prog, i) ==
    IF i > Len(prog) THEN TRUE
    ELSE IF ~ IsCompleted(prog[i]) THEN FALSE
    ELSE completeFrom(prog, i + 1)

\* Completion.Complete()
Complete(prog) == completeFrom(prog, 1)

\* Completion.CompletedBlocks(): the loop from entry i on, count so far
RECURSIVE countFrom(_, _, _)
countFrom(prog, i, count) ==
    IF i > Len(prog) THEN count
    ELSE countFrom(prog, i + 1, IF IsCompleted(prog[i]) THEN count + 1 ELSE count)

\* Completion.CompletedBlocks()
CompletedBlocks(prog) == countFrom(prog, 1, 0)

\* A float32 the model can hold exactly: the quotient num/den of two integers,
\* or what IEEE 754 division gives for a zero divisor.
Quotient(num, den) ==
    IF den # 0 THEN [kind |-> "number", num |-> num, den |-> den]
    ELSE IF num = 0 THEN [kind |-> "NaN", num |-> 0, den |-> 0]
    ELSE [kind |-> "Inf", num |-> 0, den |-> 0]

\* the percent of one entry: float32(bl) / float32(100), kept in hundredths
PercentBase == 100

\* Completion.Percentage(): the loop from entry i on; pct is the sum so far,
\* in hundredths
RECURSIVE sumFrom(_, _, _)
sumFrom(prog, i, pct) ==
    IF i > Len(prog) THEN pct
    ELSE sumFrom(prog, i + 1, pct + prog[i])

\* Completion.Percentage(): pct / float32(len(p))
Percentage(prog) == Quotient(sumFrom(prog, 1, 0), PercentBase * Len(prog))

CallNewCompletion ==
    /\ ~cmpl.called
    /\ cmpl' = [cmpl EXCEPT !.called = TRUE,
                            !.prog = NewCompletion(cmpl.mfst, cmpl.missing)]
    /\ UNCHANGED <<manifestVars, gosort, slice, sessionVars, summ>>

\* the Nodes of a manifest: identifiers, none twice
NodeLists == {s \in SeqsUpTo(Hashes, MaxLen) : \A i, j \in 1..Len(s) : i # j => s[i] # s[j]}

InitCompletion ==
    /\ cmpl \in {[called |-> FALSE, mfst |-> a, missing |-> b, prog |-> <<>>] :
                    a \in NodeLists, b \in NodeLists}
    /\ gosort = "quickSort"
    /\ NoManifest /\ NoSlice /\ NoSession /\ NoSummary

NextCompletion == CallNewCompletion

SpecCompletion == InitCompletion /\ [][NextCompletion]_vars

\* ------------------------------------------------------------------ session
\* A block payload is a natural; CidOf is the content identifier the block
\* store derives from the written bytes (bstat.Path().Cid().String()).

Payloads == 1..NumHashes

CidOf(data) == NumHashes + 1 - data

\* the payloads sent as the block named hash: the block itself, and the block
\* of the next identifier (a payload that does not derive hash)
PayloadsFor(hash) == {data \in Payloads : CidOf(data) \in {hash, (hash % NumHashes) + 1}}

Tasks == 1..MaxTasks

NoResp == [Hash |-> 0, Status |-> "none", Err |-> NoErr]

IdleTask == [pc |-> "idle", hash |-> 0, data |-> 0, i |-> 0, putErr |-> NoErr, resp |-> NoResp]

ErrPut(data) == [kind |-> "put", id |-> data]

ErrMismatch(hash, id) == [kind |-> "hash mismatch", id |-> id, expected |-> hash]

\* no check of the derived identifier
NeverMismatch(id, hash) == FALSE

\* id.String() != hash
HashMismatch(id, hash) == id # hash

\* the variables a step of the session leaves alone
notSession == <<manifestVars, gosort, slice, cmpl, summ>>

NotHeard == [got |-> FALSE, ptr |-> "nil", len |-> 0, seen |-> <<>>]

\* newSession(ctx, lng, bapi, mfst, pinOnComplete): the session, with its first
\* completionChanged goroutine started
newSession(mfst) ==
    /\ sess = [mfst |-> mfst, diff |-> mfst, prog |-> NewCompletion(mfst, mfst),
               stored |-> {}, refused |-> {}]
    /\ task = [t \in Tasks |-> IdleTask]
    /\ pubs = 1
    /\ calls = 0
    /\ heard = NotHeard

\* a notification started whatever the response
NotifiedAlways(status) == pubs + 1

\* the completionChanged goroutines after a response: go s.completionChanged()
\* stands after the two early returns, so only an Ok response starts one
Notified(status) == IF status = "Ok" THEN pubs + 1 ELSE pubs

\* every entry set: 100
MarkEveryTurn(prog, i, hash, h) == [prog EXCEPT ![i] = 100]

\* an entry of another node put back to 0
MarkOrResetTurn(prog, i, hash, h) == [prog EXCEPT ![i] = IF hash = h THEN 100 ELSE 0]

\* if hash == h { s.prog[i] = 100 }
MarkTurn(prog, i, hash, h) == IF hash = h THEN [prog EXCEPT ![i] = 100] ELSE prog

\* a caller enters ReceiveBlock(hash, data)
ReceiveBlock(t, hash, data) ==
    /\ task[t].pc = "idle"
    /\ calls < MaxCalls
    /\ calls' = calls + 1
    /\ task' = [task EXCEPT ![t] = [IdleTask EXCEPT !.pc = "put", !.hash = hash, !.data = data]]
    /\ UNCHANGED <<notSession, sess, pubs, heard>>

\* s.bapi.Put fails: StatusRetry with the write error
PutFails(t) ==
    /\ task[t].pc = "put"
    /\ task' = [task EXCEPT ![t].pc = "done",
                            ![t].putErr = ErrPut(task[t].data),
                            ![t].resp = [Hash |-> task[t].hash, Status |-> "Retry",
                                         Err |-> ErrPut(task[t].data)]]
    /\ pubs' = Notified("Retry")
    /\ sess' = [sess EXCEPT !.refused = @ \cup {task[t].hash}]
    /\ UNCHANGED <<notSession, calls, heard>>

\* s.bapi.Put writes the block; then the check of the derived identifier
PutBlock(t) ==
    /\ task[t].pc = "put"
    /\ IF HashMismatch(CidOf(task[t].data), task[t].hash)
       THEN /\ sess' = [sess EXCEPT !.stored = @ \cup {CidOf(task[t].data)},
                                    !.refused = @ \cup {task[t].hash}]
            /\ task' = [task EXCEPT ![t].pc = "done",
                                    ![t].resp = [Hash |-> task[t].hash, Status |-> "Errored",
                                                 Err |-> ErrMismatch(task[t].hash, CidOf(task[t].data))]]
            /\ pubs' = Notified("Errored")
       ELSE /\ sess' = [sess EXCEPT !.stored = @ \cup {CidOf(task[t].data)}]
            /\ task' = [task EXCEPT ![t].pc = "mark", ![t].i = 1]
            /\ pubs' = pubs
    /\ UNCHANGED <<notSession, calls, heard>>

\* one turn of the loop over s.mfst.Nodes
MarkNode(t) ==
    /\ task[t].pc = "mark"
    /\ task[t].i <= Len(sess.mfst)
    /\ sess' = [sess EXCEPT !.prog = MarkTurn(@, task[t].i, task[t].hash, sess.mfst[task[t].i])]
    /\ task' = [task EXCEPT ![t].i = @ + 1]
    /\ UNCHANGED <<notSession, pubs, calls, heard>>

\* after the loop: go s.completionChanged(), and StatusOk
Publish(t) ==
    /\ task[t].pc = "mark"
    /\ task[t].i > Len(sess.mfst)
    /\ pubs' = Notified("Ok")
    /\ task' = [task EXCEPT ![t].pc = "done",
                            ![t].resp = [Hash |-> task[t].hash, Status |-> "Ok", Err |-> NoErr]]
    /\ UNCHANGED <<notSession, sess, calls, heard>>

\* the caller has its response and may call again
Return(t) ==
    /\ task[t].pc = "done"
    /\ task' = [task EXCEPT ![t] = IdleTask]
    /\ UNCHANGED <<notSession, sess, pubs, calls, heard>>

\* the value of s.progCh <- s.prog: the slice s.prog itself, that is a pointer
\* to the array of the session's Completion and its length
Payload == [ptr |-> "s.prog", len |-> Len(sess.prog)]

\* what a holder of the slice v reads in it
Deref(v) == IF v.ptr = "s.prog" THEN SubSeq(sess.prog, 1, v.len) ELSE <<>>

\* a listener receives from progCh: one blocked completionChanged goroutine
\* ends.  The listener keeps the first value it receives.
Receive ==
    /\ pubs > 0
    /\ pubs' = pubs - 1
    /\ heard' = IF heard.got THEN heard
                ELSE [got |-> TRUE, ptr |-> Payload.ptr, len |-> Payload.len,
                      seen |-> Deref(Payload)]
    /\ UNCHANGED <<notSession, sess, task, calls>>

\* the manifests a session is made for, up to the names of the identifiers:
\* k distinct nodes, or (a manifest no NewManifest call returns) one node k times
SessionManifests ==
    {[i \in 1..k |-> i] : k \in 0..MaxSessionLen} \cup {[i \in 1..k |-> 1] : k \in 2..MaxSessionLen}

InitSession ==
    /\ \E mfst \in SessionManifests : newSession(mfst)
    /\ gosort = "quickSort"
    /\ NoManifest /\ NoSlice /\ NoCompletion /\ NoSummary

NextSession ==
    \/ \E t \in Tasks, hash \in Hashes : \E data \in PayloadsFor(hash) : ReceiveBlock(t, hash, data)
    \/ \E t \in Tasks : PutFails(t)
    \/ \E t \in Tasks : PutBlock(t)
    \/ \E t \in Tasks : MarkNode(t)
    \/ \E t \in Tasks : Publish(t)
    \/ \E t \in Tasks : Return(t)
    \/ Receive

SpecSession == InitSession /\ [][NextSession]_vars

\* a step of a ReceiveBlock call that is under way: the scheduler runs every
\* goroutine that can run
Step(t) == PutFails(t) \/ PutBlock(t) \/ MarkNode(t) \/ Publish(t) \/ Return(t)

\* The session with the scheduling Go guarantees: a call under way goes on.
\* Nothing obliges a caller to call, nor a listener to receive from progCh.
SpecSessionFair == SpecSession /\ \A t \in Tasks : WF_vars(Step(t))

\* ----------------------------------------------- the methods of a Completion

\* values of an entry: nothing local, half of the block, the block
BlockValues == {0, 50, 100}

Completions == UNION {[1..n -> BlockValues] : n \in 0..MaxEntries}

\* p.Percentage(), p.CompletedBlocks() and p.Complete() of the Completion p
CallSummary ==
    /\ ~summ.called
    /\ summ' = [summ EXCEPT !.called = TRUE,
                            !.pct = Percentage(summ.p),
                            !.count = CompletedBlocks(summ.p),
                            !.complete = Complete(summ.p)]
    /\ UNCHANGED <<manifestVars, gosort, slice, cmpl, sessionVars>>

InitSummary ==
    /\ \E p \in Completions :
            summ = [called |-> FALSE, p |-> p, pct |-> NoPct, count |-> 0, complete |-> FALSE]
    /\ gosort = "quickSort"
    /\ NoManifest /\ NoSlice /\ NoCompletion /\ NoSession

NextSummary == CallSummary

SpecSummary == InitSummary /\ [][NextSummary]_vars

\* --------------------------------------------------------------- properties

Called(b) == built[b].called
Succeeded(b) == built[b].called /\ built[b].err = NoErr
Nodes(b) == built[b].m.Nodes
Links(b) == built[b].m.Links

\* the nodes reachable from the root through the links of the store
RECURSIVE ReachFrom(_)
ReachFrom(S) ==
    LET T == S \cup UNION {Range(dag[n]) : n \in S}
    IN  IF T = S THEN S ELSE ReachFrom(T)

Reachable == ReachFrom({root})

\* the weight the walk records for every node, before the indices replace it
RecordedWeights == addNode(FreshMState, root, 0).st.weights

\* the number of links of reachable nodes that point to node t
InDegree(t) ==
    LET RECURSIVE Count(_, _)
        Count(n, k) == IF k > Len(dag[n]) THEN 0
                       ELSE (IF dag[n][k] = t THEN 1 ELSE 0) + Count(n, k + 1)
        RECURSIVE Sum(_)
        Sum(S) == IF S = {} THEN 0
                  ELSE LET n == CHOOSE x \in S : TRUE IN Count(n, 1) + Sum(S \ {n})
    IN  Sum(Reachable)

DiamondInputs == {<<Diamond(p), p[1]>> : p \in Perms(1..4)}

IsDiamond == <<dag, root>> \in DiamondInputs

C2_RootFirst ==
    \A b \in Builds : Succeeded(b) =>
        /\ Len(Nodes(b)) >= 1
        /\ Nodes(b)[1] = root
        /\ \A id \in Range(Nodes(b)) \ {root} :
              RecordedWeights[root] > RecordedWeights[id]

\* a successful build of a DAG with a node shared between branches, whose root
\* does not carry the least identifier
C2_Witness ==
    /\ Succeeded(1)
    /\ \E t \in Reachable : InDegree(t) >= 2
    /\ \E id \in Reachable : id < root

\* C3 (as claimed): Nodes are in descending order of recorded weight, and nodes of
\* equal recorded weight are in ascending order of identifier.
C3_WeightThenAlpha ==
    \A b \in Builds : Succeeded(b) =>
        \A i, j \in 1..Len(Nodes(b)) : i < j =>
            \/ RecordedWeights[Nodes(b)[i]] > RecordedWeights[Nodes(b)[j]]
            \/ /\ RecordedWeights[Nodes(b)[i]] = RecordedWeights[Nodes(b)[j]]
               /\ Nodes(b)[i] < Nodes(b)[j]

\* C4: after a successful NewManifest, Nodes holds exactly the nodes reachable
\* from the root, each once.
C4_ExactlyReachable ==
    \A b \in Builds : Succeeded(b) =>
        /\ Range(Nodes(b)) = Reachable
        /\ Len(Nodes(b)) = Cardinality(Reachable)

\* a successful build where one node is reached by several links and another
\* node of the store is not reachable at all
C4_Witness ==
    /\ Succeeded(1)
    /\ \E t \in Reachable : InDegree(t) >= 2
    /\ (DOMAIN dag) \ Reachable # {}

\* C6 (as claimed): the 4-node DAG with a shared grandchild gives 4 Nodes,
\* 3 Links and the root first.
C6_DiamondThreeLinks ==
    \A b \in Builds : (IsDiamond /\ Succeeded(b)) =>
        /\ Len(Nodes(b)) = 4
        /\ Len(Links(b)) = 3
        /\ Nodes(b)[1] = root

\* C6 (amended): the 4-node DAG with a shared grandchild gives 4 Nodes, 4 Links
\* (root to each child, each child to the grandchild) and the root first.
C6_DiamondFourLinks ==
    \A b \in Builds : (IsDiamond /\ Succeeded(b)) =>
        /\ Len(Nodes(b)) = 4
        /\ Len(Links(b)) = 4
        /\ Nodes(b)[1] = root

\* a successful build of the 4-node DAG with a shared grandchild
C6_Witness == IsDiamond /\ Succeeded(1) /\ Len(Nodes(1)) = 4

\* C7 (as claimed): when a fetch fails, NewManifest returns the store's error
\* unchanged and no manifest holding the nodes visited before the failure.
C7_NoPartialManifest ==
    \A b \in Builds : (Called(b) /\ built[b].err.kind = "get") =>
        /\ built[b].err = fault
        /\ built[b].m.Nodes = <<>>
        /\ built[b].m.Links = <<>>

\* C5 (as claimed): the index pairs come out of the sort in ascending order of
\* (fromIndex, toIndex), the same pairs as went in.
C5_LinksSortedByFromTo ==
    slice.sorted =>
        \A i, j \in 1..Len(slice.links) : i < j =>
            \/ slice.links[i][1] < slice.links[j][1]
            \/ /\ slice.links[i][1] = slice.links[j][1]
               /\ slice.links[i][2] <= slice.links[j][2]

\* whether sub is mfst with some of its nodes left out, the others in order
RECURSIVE IsSubsequence(_, _)
IsSubsequence(sub, s) ==
    IF sub = <<>> THEN TRUE
    ELSE IF s = <<>> THEN FALSE
    ELSE IF Head(sub) = Head(s) THEN IsSubsequence(Tail(sub), Tail(s))
    ELSE IsSubsequence(sub, Tail(s))

\* C8: when missing.Nodes is an ordered subsequence of mfst.Nodes, NewCompletion
\* returns one entry per node of mfst, 0 where the node occurs in missing.Nodes
\* and 100 elsewhere.
C8_CompletionOfSubsequence ==
    (cmpl.called /\ IsSubsequence(cmpl.missing, cmpl.mfst)) =>
        /\ Len(cmpl.prog) = Len(cmpl.mfst)
        /\ \A i \in 1..Len(cmpl.mfst) :
              cmpl.prog[i] = IF cmpl.mfst[i] \in Range(cmpl.missing) THEN 0 ELSE 100

\* a call whose missing manifest leaves out the first node of mfst and keeps
\* two later ones
C8_Witness ==
    /\ cmpl.called
    /\ IsSubsequence(cmpl.missing, cmpl.mfst)
    /\ Len(cmpl.missing) = 2
    /\ Len(cmpl.mfst) = 3
    /\ cmpl.mfst[1] \notin Range(cmpl.missing)

\* C9 (as claimed): NewCompletion(m, m) has every entry at 100.
C9_SameManifestAllLocal ==
    (cmpl.called /\ cmpl.missing = cmpl.mfst) =>
        \A i \in 1..Len(cmpl.prog) : cmpl.prog[i] = 100

\* C9 (amended): NewCompletion(m, m) has one entry per node of m, every entry
\* at 0: every node is missing.
C9_SameManifestAllMissing ==
    (cmpl.called /\ cmpl.missing = cmpl.mfst) =>
        /\ Len(cmpl.prog) = Len(cmpl.mfst)
        /\ \A i \in 1..Len(cmpl.prog) : cmpl.prog[i] = 0

\* NewCompletion(m, m) has returned for a manifest of three nodes
C9_Witness ==
    cmpl.called /\ cmpl.missing = cmpl.mfst /\ Len(cmpl.mfst) = 3

\* C10: a ReceiveBlock call answers Retry with the write error exactly when the
\* write failed, Errored with a hash-mismatch error exactly when the write
\* succeeded and the derived identifier differs from hash, Ok exactly when the
\* write succeeded and the derived identifier equals hash; the response echoes
\* the hash argument.
C10_ReceiveBlockStatus ==
    \A t \in Tasks : task[t].pc = "done" =>
        LET r == task[t].resp
            wrote == task[t].putErr = NoErr
            same == CidOf(task[t].data) = task[t].hash
        IN  /\ r.Hash = task[t].hash
            /\ r.Status \in {"Retry", "Errored", "Ok"}
            /\ (r.Status = "Retry") <=> ~wrote
            /\ (r.Status = "Errored") <=> (wrote /\ ~same)
            /\ (r.Status = "Ok") <=> (wrote /\ same)
            /\ (r.Status = "Retry") => r.Err = task[t].putErr
            /\ (r.Status = "Errored") => r.Err.kind = "hash mismatch"
            /\ (r.Status = "Ok") => r.Err = NoErr

\* a caller holds Errored after a write that succeeded for another identifier,
\* while another caller holds Ok
C10_Witness ==
    \E t, u \in Tasks :
        /\ task[t].pc = "done" /\ task[t].resp.Status = "Errored"
        /\ CidOf(task[t].data) \in sess.stored
        /\ task[u].pc = "done" /\ task[u].resp.Status = "Ok"


\* the call of task t has returned with this status
Returned(t, status) == task[t].pc = "done" /\ task[t].resp.Status = status

\* task t is at the turn i of the loop of ReceiveBlock, and the turn writes
Writes(t, i) ==
    /\ task[t].pc = "mark"
    /\ task[t].i = i
    /\ i <= Len(sess.mfst)
    /\ task[t].hash = sess.mfst[i]

\* C11: when a ReceiveBlock(hash, data) call has returned Ok, every entry i
\* with mfst.Nodes[i] = hash is 100; and an entry changes only in a turn of a
\* call for the hash of its own node, which sets it to 100, while the manifest
\* and the length of the Completion never change.
C11_OkMarksOnlyMatching ==
    /\ [](\A t \in Tasks : Returned(t, "Ok") =>
            \A i \in 1..Len(sess.mfst) : sess.mfst[i] = task[t].hash => sess.prog[i] = 100)
    /\ [][/\ sess'.mfst = sess.mfst
          /\ Len(sess'.prog) = Len(sess.prog)
          /\ \A i \in 1..Len(sess.prog) :
                sess'.prog[i] # sess.prog[i] =>
                    /\ sess'.prog[i] = 100
                    /\ \E t \in Tasks : Writes(t, i) /\ task'[t].i = i + 1]_vars

\* an Ok call has marked its node and another node of the manifest is still 0
C11_Witness ==
    \E t \in Tasks :
        /\ Returned(t, "Ok")
        /\ \E i \in 1..Len(sess.mfst) : sess.mfst[i] = task[t].hash /\ sess.prog[i] = 100
        /\ \E j \in 1..Len(sess.mfst) : sess.mfst[j] # task[t].hash /\ sess.prog[j] = 0

\* task t takes the step in which its call fails
Fails(t) == task[t].pc = "put" /\ task'[t].pc = "done"

\* C12: the step in which a ReceiveBlock call fails (Retry or Errored) changes
\* no Completion entry and starts no notification, and the call never entered
\* the marking loop; after it the session takes a new call for a refused hash
\* as it takes any other.
C12_FailureChangesNothing ==
    /\ [][\A t \in Tasks : Fails(t) =>
            /\ task'[t].resp.Status \in {"Retry", "Errored"}
            /\ sess'.prog = sess.prog
            /\ pubs' = pubs]_vars
    /\ [](\A h \in sess.refused :
            (calls < MaxCalls /\ \E t \in Tasks : task[t].pc = "idle") =>
                \A data \in PayloadsFor(h) : \E t \in Tasks : ENABLED ReceiveBlock(t, h, data))

\* a hash that was refused has been received again, and this time marked
C12_Witness ==
    \E t \in Tasks :
        /\ Returned(t, "Ok")
        /\ task[t].hash \in sess.refused
        /\ \A u \in Tasks \ {t} : task[u].pc = "idle"
        /\ \E i \in 1..Len(sess.mfst) : sess.mfst[i] = task[t].hash /\ sess.prog[i] = 100

\* C13: no step of a session changes the length of the Completion or the
\* value of an entry that is 100, so that Complete(), once true, stays true.
C13_NeverUnmarks ==
    [][/\ Len(sess'.prog) = Len(sess.prog)
       /\ \A i \in 1..Len(sess.prog) : sess.prog[i] = 100 => sess'.prog[i] = 100
       /\ Complete(sess.prog) => Complete(sess'.prog)]_vars

\* the Completion is complete and a call is still in its marking loop
C13_Witness ==
    /\ Len(sess.prog) > 0
    /\ Complete(sess.prog)
    /\ \E t \in Tasks : task[t].pc = "mark" /\ task[t].i <= Len(sess.mfst)

\* C14: no two ReceiveBlock calls are at a writing turn of their marking loop
\* at the same time.
C14_MutualExclusion ==
    \A t \in Tasks, u \in Tasks :
        t # u => ~ ((\E i \in 1..Len(sess.mfst) : Writes(t, i)) /\
                    (\E j \in 1..Len(sess.mfst) : Writes(u, j)))

\* C15: the value a listener received from progCh reads as it read when it
\* was received, whatever ReceiveBlock has marked since.
C15_PayloadIsSnapshot == heard.got => Deref(heard) = heard.seen

\* C19: before any ReceiveBlock call every entry of the session's Completion
\* is 0, and whenever the Completion of a non-empty manifest is complete, every
\* identifier of the manifest is the derived identifier of bytes that a
\* ReceiveBlock call wrote through bapi.Put.
C19_CompleteHoldsEveryBlock ==
    /\ calls = 0 => \A i \in 1..Len(sess.prog) : sess.prog[i] = 0
    /\ Len(sess.prog) = Len(sess.mfst)
    /\ (Len(sess.mfst) > 0 /\ Complete(sess.prog)) =>
            \A i \in 1..Len(sess.mfst) : sess.mfst[i] \in sess.stored

\* a manifest of two different nodes is complete, after one call for each
C19_Witness ==
    /\ Len(sess.mfst) = 2
    /\ sess.mfst[1] # sess.mfst[2]
    /\ Complete(sess.prog)
    /\ {sess.mfst[1], sess.mfst[2]} \subseteq sess.stored

\* C18: every completionChanged goroutine ends: whenever n of them are blocked
\* on the send to progCh, later fewer than n are.
C18_PublishersTerminate ==
    \A n \in 1..(MaxCalls + 1) : (pubs >= n) ~> (pubs < n)

\* the Put of a ReceiveBlock(h, data) call has succeeded with the identifier h
Accepted(h) == \E t \in Tasks : task[t].pc = "mark" /\ task[t].hash = h

\* C20: if for every identifier of the manifest the Put of some ReceiveBlock
\* call eventually succeeds with that identifier, then eventually the
\* Completion of the session is complete.
C20_EventuallyComplete ==
    (\A h \in Hashes : h \in Range(sess.mfst) => <>Accepted(h)) => <>Complete(sess.prog)

\* the Completion is complete although a call for a node of the manifest failed
C20_Witness ==
    /\ Len(sess.mfst) > 0
    /\ Complete(sess.prog)
    /\ sess.refused \cap Range(sess.mfst) # {}
    /\ \A t \in Tasks : task[t].pc = "idle"

\* the entries of p that are 100
Hundreds(p) == {i \in 1..Len(p) : p[i] = 100}

\* C16: Complete() is true iff every entry is 100, CompletedBlocks() is the
\* number of entries that are 100, so Complete() iff CompletedBlocks() = len(p);
\* and for [0,100,0,100] CompletedBlocks() is 2, Complete() false and
\* Percentage() one half.
C16_CompletionSummary ==
    summ.called =>
        /\ summ.complete <=> Hundreds(summ.p) = 1..Len(summ.p)
        /\ summ.count = Cardinality(Hundreds(summ.p))
        /\ summ.complete <=> summ.count = Len(summ.p)
        /\ summ.p = <<0, 100, 0, 100>> =>
                /\ summ.count = 2
                /\ ~ summ.complete
                /\ summ.pct.kind = "number"
                /\ 2 * summ.pct.num = summ.pct.den

\* the three methods have returned for the entries [0,100,0,100]
C16_Witness == summ.called /\ summ.p = <<0, 100, 0, 100>>

\* C17: Percentage() of the empty Completion is 0.
C17_EmptyPercentageIsZero ==
    (summ.called /\ Len(summ.p) = 0) => (summ.pct.kind = "number" /\ summ.pct.num = 0)

\* the call of task t is for a hash that is no node of the manifest
Foreign(t) == task[t].pc # "idle" /\ task[t].hash \notin Range(sess.mfst)

\* C21: a ReceiveBlock(hash, data) call for a hash that is no node of the
\* manifest, whose written bytes derive hash, returns Ok with the block stored;
\* no step of the call changes an entry of the Completion, and its last step
\* starts a completion-changed notification.
C21_ForeignBlockAccepted ==
    /\ [](\A t \in Tasks :
            (Foreign(t) /\ task[t].pc = "done" /\ task[t].putErr = NoErr
                        /\ CidOf(task[t].data) = task[t].hash) =>
                /\ Returned(t, "Ok")
                /\ task[t].hash \in sess.stored)
    /\ [][\A t \in Tasks :
            (Foreign(t) /\ task'[t] # task[t]) =>
                /\ sess'.prog = sess.prog
                /\ (task[t].pc = "mark" /\ task'[t].pc = "done") =>
                        (task'[t].resp.Status = "Ok" /\ pubs' = pubs + 1)]_vars

\* a block outside the manifest has been received with Ok: it is stored, its
\* notification is started next to the first one, and every entry is still 0
C21_Witness ==
    \E t \in Tasks :
        /\ Returned(t, "Ok")
        /\ Foreign(t)
        /\ task[t].hash \in sess.stored
        /\ Len(sess.mfst) > 0
        /\ \A i \in 1..Len(sess.prog) : sess.prog[i] = 0
        /\ pubs = 2
        /\ ~ heard.got
====
